---- MODULE Spec2Model ----
(***************************************************************************)
(* tmexp.train_hdp: the corpus reader create_gensim_corpus and the         *)
(* train_hdp command (input checks, output guard, loading, training,       *)
(* per-document inference, saving of the two matrices).                    *)
(*                                                                         *)
(* Python lists are TLA+ sequences: the element at Python index i is at    *)
(* position i + 1.  Float parameters are kept in ten-thousandths.          *)
(***************************************************************************)
EXTENDS Integers, Sequences, FiniteSets, TLC

VARIABLES
    reader,           \* frame of a create_gensim_corpus call under ReaderSpec
    args,             \* arguments of train_hdp
    disk,             \* the files train_hdp refers to
    preexisting,      \* output paths that existed when the run started
    pc,               \* position of train_hdp
    error,            \* exception that ended the run ("" while none)
    io,               \* file-system operations performed, in order
    calls,            \* calls to create_gensim_corpus and to gensim, in order
    word_index,       \* train_hdp local
    corpus,           \* train_hdp local
    training_corpus,  \* train_hdp local
    hdp,              \* train_hdp local: the trained model
    ind_doc,          \* train_hdp local: index of the inference loop
    document_topics   \* train_hdp local: the document-topic matrix

vars == <<reader, args, disk, preexisting, pc, error, io, calls, word_index,
          corpus, training_corpus, hdp, ind_doc, document_topics>>

hdpVars == <<args, disk, preexisting, pc, error, io, calls, word_index,
             corpus, training_corpus, hdp, ind_doc, document_topics>>

----------------------------------------------------------------------------
(* Bounds of the model *)

MaxDocs == 2

MaxWords == 1

MaxCount == 1

MaxLines == 2

MaxGamma == 2

----------------------------------------------------------------------------
(* Python list indexing *)

\* lst[i] is defined for -len <= i < len; anything else raises IndexError
PyIndexOK(i, n) == -n <= i /\ i < n

\* position in the TLA+ sequence of Python index i (negative i counts from the end)
PyPos(i, n) == IF i < 0 THEN i + n + 1 ELSE i + 1

----------------------------------------------------------------------------
(* Document-word files: D, V, N on three lines, then lines of                *)
(* <<doc_id, word_id, count>>                                                *)

MissingFile == [exists |-> FALSE, D |-> 0, V |-> 0, N |-> 0, lines |-> <<>>]

SeqsUpTo(S, n) == UNION {[1..k -> S] : k \in 0..n}

DocwordFiles(Ds, Vs, Ns, maxLines, docIds, wordIds, counts) ==
    {[exists |-> TRUE, D |-> d, V |-> v, N |-> n, lines |-> ls] :
        d \in Ds, v \in Vs, n \in Ns,
        ls \in SeqsUpTo(docIds \X wordIds \X counts, maxLines)}

----------------------------------------------------------------------------
(* Arguments and files of train_hdp *)

VOCAB_FILENAME == "vocab.bow_tm.txt"

DOCWORD_FILENAME == "docword.bow_tm.txt"

DOCWORD_CONCAT_FILENAME == "docword_concat.bow_tm.txt"

DOCTOPIC_FILENAME == "doctopic.npy"

WORDTOPIC_FILENAME == "wordtopic.npy"

TOPICS_DIR == "/data/topics"

\* the parameters of the specification's example run
ExampleConfig ==
    [chunk_size |-> 2, kappa |-> 10000, tau |-> 640000, K |-> 2, T |-> 2,
     alpha |-> 1, gamma |-> 1, eta |-> 100, scale |-> 10000, var_converge |-> 1]

Configs ==
    {ExampleConfig,
     [ExampleConfig EXCEPT !.chunk_size = 0],
     [ExampleConfig EXCEPT !.T = 0],
     [ExampleConfig EXCEPT !.eta = 0]}

MakeArgs(force, consolidate, c) ==
    [force |-> force, consolidate |-> consolidate, chunk_size |-> c.chunk_size,
     kappa |-> c.kappa, tau |-> c.tau, K |-> c.K, T |-> c.T, alpha |-> c.alpha,
     gamma |-> c.gamma, eta |-> c.eta, scale |-> c.scale,
     var_converge |-> c.var_converge]

MissingVocab == [exists |-> FALSE, words |-> <<>>]

VocabFiles == {[exists |-> TRUE, words |-> [i \in 1..MaxWords |-> "w"]]}

NoOutput == [exists |-> FALSE, fresh |-> FALSE, data |-> <<>>]

OldOutput == [exists |-> TRUE, fresh |-> FALSE, data |-> <<>>]

Untrained == [trained |-> FALSE, corpus |-> <<>>, T |-> 0]

----------------------------------------------------------------------------
(* create_gensim_corpus *)

\* corpus = [[] for _ in range(D)]
AllocCorpus(D) == [i \in 1..D |-> <<>>]

\* one iteration of the loop over the data lines
AppendLine(c, line) ==
    LET doc_id == line[1]
        word_id == line[2]
        count == line[3]
    IN  IF PyIndexOK(doc_id, Len(c))
        THEN [ok |-> TRUE,
              corpus |-> [c EXCEPT ![PyPos(doc_id, Len(c))] =
                                        Append(@, <<word_id - 1, count>>)]]
        ELSE [ok |-> FALSE, corpus |-> c]

RECURSIVE ReadLines(_, _)
ReadLines(c, lines) ==
    IF lines = <<>>
    THEN [ok |-> TRUE, corpus |-> c]
    ELSE LET r == AppendLine(c, Head(lines))
         IN  IF r.ok THEN ReadLines(r.corpus, Tail(lines)) ELSE r

\* the whole call: [ok, corpus]; ok = FALSE is the IndexError of corpus[doc_id]
create_gensim_corpus(file) == ReadLines(AllocCorpus(file.D), file.lines)

IdleReader ==
    [file |-> MissingFile, status |-> "idle", pos |-> 0, corpus |-> <<>>,
     num_words |-> 0, num_rows |-> 0]

ReaderFiles ==
    DocwordFiles(0..MaxDocs, 1..MaxWords, 0..MaxLines, MaxLines,
                 (-1)..(MaxDocs + 1), 0..(MaxWords + 1), 0..MaxCount)

\* the three header lines
ReadHeader ==
    /\ reader.status = "open"
    /\ reader' = [reader EXCEPT !.status = "reading",
                                !.corpus = AllocCorpus(reader.file.D),
                                !.num_words = reader.file.V,
                                !.num_rows = reader.file.N]
    /\ UNCHANGED hdpVars

\* one data line
ReadLine ==
    /\ reader.status = "reading"
    /\ reader.pos < Len(reader.file.lines)
    /\ LET r == AppendLine(reader.corpus, reader.file.lines[reader.pos + 1])
       IN  reader' = [reader EXCEPT !.pos = @ + 1,
                                    !.corpus = r.corpus,
                                    !.status = IF r.ok THEN "reading" ELSE "IndexError"]
    /\ UNCHANGED hdpVars

\* end of file: return corpus
ReturnCorpus ==
    /\ reader.status = "reading"
    /\ reader.pos = Len(reader.file.lines)
    /\ reader' = [reader EXCEPT !.status = "returned"]
    /\ UNCHANGED hdpVars

\* a call of create_gensim_corpus on any file of ReaderFiles
ReaderInit ==
    /\ reader \in {[IdleReader EXCEPT !.file = f, !.status = "open"] : f \in ReaderFiles}
    /\ args = MakeArgs(FALSE, FALSE, ExampleConfig)
    /\ disk = [vocab |-> MissingVocab, docword |-> MissingFile,
               docword_concat |-> MissingFile, doctopic |-> NoOutput,
               wordtopic |-> NoOutput, output_dir |-> FALSE]
    /\ preexisting = {}
    /\ pc = "idle"
    /\ error = ""
    /\ io = <<>>
    /\ calls = <<>>
    /\ word_index = <<>>
    /\ corpus = <<>>
    /\ training_corpus = <<>>
    /\ hdp = Untrained
    /\ ind_doc = 0
    /\ document_topics = <<>>

ReaderNext ==
    \/ ReadHeader
    \/ ReadLine
    \/ ReturnCorpus

ReaderSpec == ReaderInit /\ [][ReaderNext]_vars

----------------------------------------------------------------------------
(* Collaborators of train_hdp: tmexp.utils, gensim, numpy *)

\* check_file_exists(path): raises when the file is missing
FileCheckPasses(file) == file.exists

\* check_remove(path, logger, force): nothing to do for a missing path; an
\* existing one is removed under force and aborts the run otherwise
CheckRemoveOutcome(out, force) ==
    IF ~out.exists THEN "absent" ELSE IF force THEN "removed" ELSE "abort"

RECURSIVE Sum(_)
Sum(v) == IF v = <<>> THEN 0 ELSE Head(v) + Sum(Tail(v))

\* hdp.inference([bow])[0]: a vector of T weights; gensim leaves the row of an
\* empty document at zero and fills positive weights for any other
InferenceResults(bow, T) ==
    IF bow = <<>> THEN {[t \in 1..T |-> 0]} ELSE [1..T -> 1..MaxGamma]

\* gammas / sum(gammas): the row gammas[t] / den; den = 0 makes every entry NaN
Normalize(gammas) == [set |-> TRUE, num |-> gammas, den |-> Sum(gammas)]

\* a row of np.empty((len(corpus), T)) that nothing was stored in yet
UnsetRow == [set |-> FALSE, num |-> <<>>, den |-> 0]

\* hdp.get_topics(): T rows, their entries left out
get_topics(model) == [t \in 1..model.T |-> <<>>]

----------------------------------------------------------------------------
(* train_hdp *)

ProgramLoadsBeforeGuard ==
    <<"check_vocab", "check_docword", "check_concat", "load_vocabulary",
      "create_corpus", "create_training_corpus", "remove_doctopic",
      "remove_wordtopic", "create_directory", "train", "allocate", "infer",
      "save_doctopic", "save_wordtopic", "done">>

ProgramRemovesBeforeInputChecks ==
    <<"remove_doctopic", "remove_wordtopic", "create_directory", "check_vocab",
      "check_docword", "check_concat", "load_vocabulary", "create_corpus",
      "create_training_corpus", "train", "allocate", "infer", "save_doctopic",
      "save_wordtopic", "done">>

\* the statements of train_hdp, in program order
Program ==
    <<"check_vocab", "check_docword", "check_concat", "remove_doctopic",
      "remove_wordtopic", "create_directory", "load_vocabulary", "create_corpus",
      "create_training_corpus", "train", "allocate", "infer", "save_doctopic",
      "save_wordtopic", "done">>

After(label) ==
    Program[(CHOOSE i \in 1..(Len(Program) - 1) : Program[i] = label) + 1]

InferenceCorpusIsTrainingCorpus == training_corpus

\* the list the inference loop enumerates
InferenceCorpus == corpus

\* an entry of the call log
Call(fn, arg, result) == [fn |-> fn, arg |-> arg, result |-> result]

Raise(e) ==
    /\ pc' = "aborted"
    /\ error' = e

Proceed(label) ==
    /\ pc' = After(label)
    /\ error' = error

locals == <<word_index, corpus, training_corpus, hdp, ind_doc, document_topics>>

\* check_file_exists(words_input_path)
CheckVocabExists ==
    /\ pc = "check_vocab"
    /\ io' = Append(io, <<"exists", VOCAB_FILENAME>>)
    /\ IF FileCheckPasses(disk.vocab) THEN Proceed("check_vocab") ELSE Raise("missing_input")
    /\ UNCHANGED <<reader, args, disk, preexisting, calls, locals>>

\* check_file_exists(docword_input_path)
CheckDocwordExists ==
    /\ pc = "check_docword"
    /\ io' = Append(io, <<"exists", DOCWORD_FILENAME>>)
    /\ IF FileCheckPasses(disk.docword) THEN Proceed("check_docword") ELSE Raise("missing_input")
    /\ UNCHANGED <<reader, args, disk, preexisting, calls, locals>>

\* if consolidate: check_file_exists(docword_concat_input_path)
CheckConcatExists ==
    /\ pc = "check_concat"
    /\ IF args.consolidate
       THEN /\ io' = Append(io, <<"exists", DOCWORD_CONCAT_FILENAME>>)
            /\ IF FileCheckPasses(disk.docword_concat)
               THEN Proceed("check_concat")
               ELSE Raise("missing_input")
       ELSE /\ io' = io
            /\ Proceed("check_concat")
    /\ UNCHANGED <<reader, args, disk, preexisting, calls, locals>>

\* check_remove(doctopic_output_path, logger, force)
RemoveDoctopic ==
    /\ pc = "remove_doctopic"
    /\ LET outcome == CheckRemoveOutcome(disk.doctopic, args.force)
       IN  /\ io' = io \o <<<<"exists", DOCTOPIC_FILENAME>>>>
                       \o (IF outcome = "removed"
                           THEN <<<<"remove", DOCTOPIC_FILENAME>>>>
                           ELSE <<>>)
           /\ disk' = IF outcome = "removed"
                      THEN [disk EXCEPT !.doctopic = NoOutput]
                      ELSE disk
           /\ IF outcome = "abort" THEN Raise("output_exists") ELSE Proceed("remove_doctopic")
    /\ UNCHANGED <<reader, args, preexisting, calls, locals>>

\* check_remove(wordtopic_output_path, logger, force)
RemoveWordtopic ==
    /\ pc = "remove_wordtopic"
    /\ LET outcome == CheckRemoveOutcome(disk.wordtopic, args.force)
       IN  /\ io' = io \o <<<<"exists", WORDTOPIC_FILENAME>>>>
                       \o (IF outcome = "removed"
                           THEN <<<<"remove", WORDTOPIC_FILENAME>>>>
                           ELSE <<>>)
           /\ disk' = IF outcome = "removed"
                      THEN [disk EXCEPT !.wordtopic = NoOutput]
                      ELSE disk
           /\ IF outcome = "abort" THEN Raise("output_exists") ELSE Proceed("remove_wordtopic")
    /\ UNCHANGED <<reader, args, preexisting, calls, locals>>

\* create_directory(output_dir, logger)
CreateDirectory ==
    /\ pc = "create_directory"
    /\ io' = Append(io, <<"mkdir", TOPICS_DIR>>)
    /\ disk' = [disk EXCEPT !.output_dir = TRUE]
    /\ Proceed("create_directory")
    /\ UNCHANGED <<reader, args, preexisting, calls, locals>>

\* word_index = {i: word ... for i, word in enumerate(fin)}
LoadVocabulary ==
    /\ pc = "load_vocabulary"
    /\ io' = Append(io, <<"open", VOCAB_FILENAME>>)
    /\ IF disk.vocab.exists
       THEN /\ word_index' = disk.vocab.words
            /\ Proceed("load_vocabulary")
       ELSE /\ word_index' = word_index
            /\ Raise("FileNotFoundError")
    /\ UNCHANGED <<reader, args, disk, preexisting, calls, corpus,
                   training_corpus, hdp, ind_doc, document_topics>>

\* corpus = create_gensim_corpus(docword_input_path, logger)
CreateCorpus ==
    /\ pc = "create_corpus"
    /\ io' = Append(io, <<"open", DOCWORD_FILENAME>>)
    /\ calls' = Append(calls, Call("create_gensim_corpus", DOCWORD_FILENAME, <<>>))
    /\ IF disk.docword.exists
       THEN LET r == create_gensim_corpus(disk.docword)
            IN  /\ corpus' = IF r.ok THEN r.corpus ELSE corpus
                /\ IF r.ok THEN Proceed("create_corpus") ELSE Raise("IndexError")
       ELSE /\ corpus' = corpus
            /\ Raise("FileNotFoundError")
    /\ UNCHANGED <<reader, args, disk, preexisting, word_index,
                   training_corpus, hdp, ind_doc, document_topics>>

\* training_corpus = create_gensim_corpus(docword_concat_input_path, logger)
\* if consolidate else corpus
CreateTrainingCorpus ==
    /\ pc = "create_training_corpus"
    /\ IF args.consolidate
       THEN /\ io' = Append(io, <<"open", DOCWORD_CONCAT_FILENAME>>)
            /\ calls' = Append(calls, Call("create_gensim_corpus", DOCWORD_CONCAT_FILENAME, <<>>))
            /\ IF disk.docword_concat.exists
               THEN LET r == create_gensim_corpus(disk.docword_concat)
                    IN  /\ training_corpus' = IF r.ok THEN r.corpus ELSE training_corpus
                        /\ IF r.ok
                           THEN Proceed("create_training_corpus")
                           ELSE Raise("IndexError")
               ELSE /\ training_corpus' = training_corpus
                    /\ Raise("FileNotFoundError")
       ELSE /\ io' = io
            /\ calls' = calls
            /\ training_corpus' = corpus
            /\ Proceed("create_training_corpus")
    /\ UNCHANGED <<reader, args, disk, preexisting, word_index, corpus,
                   hdp, ind_doc, document_topics>>

\* hdp = gensim.models.HdpModel(training_corpus, ...): gensim may raise
TrainModel ==
    /\ pc = "train"
    /\ calls' = Append(calls, Call("HdpModel", training_corpus, <<>>))
    /\ \E ok \in BOOLEAN :
          IF ok
          THEN /\ hdp' = [trained |-> TRUE, corpus |-> training_corpus, T |-> args.T]
               /\ Proceed("train")
          ELSE /\ hdp' = hdp
               /\ Raise("gensim_error")
    /\ UNCHANGED <<reader, args, disk, preexisting, io, word_index, corpus,
                   training_corpus, ind_doc, document_topics>>

\* document_topics = np.empty((len(corpus), T)), then the loop is entered
AllocateDocumentTopics ==
    /\ pc = "allocate"
    /\ document_topics' = [i \in 1..Len(corpus) |-> UnsetRow]
    /\ ind_doc' = 0
    /\ pc' = IF Len(InferenceCorpus) = 0 THEN After("infer") ELSE After("allocate")
    /\ UNCHANGED <<reader, args, disk, preexisting, error, io, calls, word_index,
                   corpus, training_corpus, hdp>>

\* one iteration: gammas = hdp.inference([bow])[0];
\* document_topics[ind_doc, :] = gammas / sum(gammas)
InferDocument ==
    /\ pc = "infer"
    /\ ind_doc < Len(InferenceCorpus)
    /\ LET bow == InferenceCorpus[ind_doc + 1]
       IN  \E gammas \in InferenceResults(bow, hdp.T) :
              /\ calls' = Append(calls, Call("inference", bow, gammas))
              /\ IF PyIndexOK(ind_doc, Len(document_topics))
                 THEN /\ document_topics' =
                            [document_topics EXCEPT ![ind_doc + 1] = Normalize(gammas)]
                      /\ ind_doc' = ind_doc + 1
                      /\ pc' = IF ind_doc + 1 = Len(InferenceCorpus)
                               THEN After("infer")
                               ELSE "infer"
                      /\ error' = error
                 ELSE /\ document_topics' = document_topics
                      /\ ind_doc' = ind_doc
                      /\ Raise("IndexError")
    /\ UNCHANGED <<reader, args, disk, preexisting, io, word_index, corpus,
                   training_corpus, hdp>>

\* np.save(doctopic_output_path, document_topics): the write may fail
SaveDoctopic ==
    /\ pc = "save_doctopic"
    /\ io' = Append(io, <<"save", DOCTOPIC_FILENAME>>)
    /\ \E ok \in BOOLEAN :
          IF ok
          THEN /\ disk' = [disk EXCEPT !.doctopic =
                              [exists |-> TRUE, fresh |-> TRUE, data |-> document_topics]]
               /\ Proceed("save_doctopic")
          ELSE /\ disk' = disk
               /\ Raise("OSError")
    /\ UNCHANGED <<reader, args, preexisting, calls, locals>>

\* np.save(wordtopic_output_path, hdp.get_topics()): get_topics or the write
\* may fail
SaveWordtopic ==
    /\ pc = "save_wordtopic"
    /\ calls' = Append(calls, Call("get_topics", <<>>, <<>>))
    /\ \E ok \in BOOLEAN :
          IF ok
          THEN /\ io' = Append(io, <<"save", WORDTOPIC_FILENAME>>)
               /\ disk' = [disk EXCEPT !.wordtopic =
                              [exists |-> TRUE, fresh |-> TRUE, data |-> get_topics(hdp)]]
               /\ Proceed("save_wordtopic")
          ELSE /\ io' = io
               /\ disk' = disk
               /\ Raise("gensim_error")
    /\ UNCHANGED <<reader, args, preexisting, locals>>

\* the document-word files train_hdp is run on
TrainFiles ==
    DocwordFiles(0..MaxDocs, {MaxWords}, {1}, 1, 0..MaxDocs, {1}, {1})

\* a call of train_hdp: any arguments, any of the files present or missing; the
\* consolidated file is only looked at when consolidate is set, so it is left
\* missing otherwise
Init ==
    /\ reader = IdleReader
    /\ \E f, c \in BOOLEAN, cfg \in Configs : args = MakeArgs(f, c, cfg)
    /\ \E v \in VocabFiles \cup {MissingVocab},
          d \in TrainFiles \cup {MissingFile},
          dc \in TrainFiles \cup {MissingFile},
          o1, o2 \in {NoOutput, OldOutput} :
          /\ args.consolidate \/ dc = MissingFile
          /\ disk = [vocab |-> v, docword |-> d, docword_concat |-> dc,
                     doctopic |-> o1, wordtopic |-> o2,
                     output_dir |-> o1.exists \/ o2.exists]
    /\ preexisting = {p \in {"doctopic", "wordtopic"} : disk[p].exists}
    /\ pc = Program[1]
    /\ error = ""
    /\ io = <<>>
    /\ calls = <<>>
    /\ word_index = <<>>
    /\ corpus = <<>>
    /\ training_corpus = <<>>
    /\ hdp = Untrained
    /\ ind_doc = 0
    /\ document_topics = <<>>

Next ==
    \/ CheckVocabExists
    \/ CheckDocwordExists
    \/ CheckConcatExists
    \/ RemoveDoctopic
    \/ RemoveWordtopic
    \/ CreateDirectory
    \/ LoadVocabulary
    \/ CreateCorpus
    \/ CreateTrainingCorpus
    \/ TrainModel
    \/ AllocateDocumentTopics
    \/ InferDocument
    \/ SaveDoctopic
    \/ SaveWordtopic

Spec == Init /\ [][Next]_vars

----------------------------------------------------------------------------
(* Claims about create_gensim_corpus, under ReaderSpec *)

ProcessedLines == SubSeq(reader.file.lines, 1, reader.pos)

DocIdInRange(line, D) == 1 <= line[1] /\ line[1] <= D

WordIdInRange(line, V) == 1 <= line[2] /\ line[2] <= V

\* the corpus the file format describes: line doc_id word_id count adds
\* (word_id - 1, count) to the document at 0-based index doc_id - 1
RECURSIVE OneBasedCorpus(_, _)
OneBasedCorpus(c, lines) ==
    IF lines = <<>>
    THEN c
    ELSE LET line == Head(lines)
         IN  OneBasedCorpus([c EXCEPT ![(line[1] - 1) + 1] =
                                          Append(@, <<line[2] - 1, line[3]>>)],
                            Tail(lines))

RECURSIVE TotalPairs(_)
TotalPairs(c) == IF c = <<>> THEN 0 ELSE Len(Head(c)) + TotalPairs(Tail(c))

NoDuplicateWordIds(doc) ==
    \A i, j \in 1..Len(doc) : i < j => doc[i][1] # doc[j][1]

CountInRange(line) == line[3] > 0

WellFormedLine(line, D, V) ==
    DocIdInRange(line, D) /\ WordIdInRange(line, V) /\ CountInRange(line)

\* C1: every data line whose doc_id is in 1..D is accepted and its pair
\* (word_id - 1, count) is appended, in file order, to the document at 0-based
\* index doc_id - 1 and to no other document (stated for files all of whose
\* lines read so far are well formed).
C1_LinesLandInDocIdMinusOne ==
    (/\ reader.status \in {"reading", "returned", "IndexError"}
     /\ \A k \in 1..reader.pos :
            WellFormedLine(reader.file.lines[k], reader.file.D, reader.file.V))
    => /\ reader.status # "IndexError"
       /\ reader.corpus = OneBasedCorpus(AllocCorpus(reader.file.D), ProcessedLines)

\* C2: a file with a data line whose doc_id is outside 1..D, whose word_id is
\* outside 1..V or whose count is <= 0 is rejected: create_gensim_corpus never
\* returns a corpus for it.
C2_OutOfRangeRowsRejected ==
    reader.status = "returned"
    => \A k \in 1..Len(reader.file.lines) :
           WellFormedLine(reader.file.lines[k], reader.file.D, reader.file.V)

\* C3: a returned corpus holds exactly N pairs, N being the third header line,
\* and a file with fewer or more than N data lines yields no returned corpus
\* (stated for files all of whose lines are well formed).
C3_PairCountEqualsDeclaredN ==
    (/\ reader.status = "returned"
     /\ \A k \in 1..Len(reader.file.lines) :
            WellFormedLine(reader.file.lines[k], reader.file.D, reader.file.V))
    => /\ TotalPairs(reader.corpus) = reader.num_rows
       /\ Len(reader.file.lines) = reader.num_rows

\* C8: no document of a returned corpus holds two pairs with the same word_id
\* (stated for files all of whose lines are well formed).
C8_NoDuplicateWordIds ==
    (/\ reader.status = "returned"
     /\ Len(reader.file.lines) = reader.file.N
     /\ \A k \in 1..Len(reader.file.lines) :
            WellFormedLine(reader.file.lines[k], reader.file.D, reader.file.V))
    => \A d \in 1..Len(reader.corpus) : NoDuplicateWordIds(reader.corpus[d])

----------------------------------------------------------------------------
(* Claims about train_hdp, under Spec *)

Terminated == pc \in {"done", "aborted"}

IoOps(ops) == {j \in 1..Len(io) : io[j][1] \in ops}

OutputPaths == {DOCTOPIC_FILENAME, WORDTOPIC_FILENAME, TOPICS_DIR}

RequiredInputs ==
    {VOCAB_FILENAME, DOCWORD_FILENAME}
        \cup (IF args.consolidate THEN {DOCWORD_CONCAT_FILENAME} ELSE {})

InputMissing ==
    \/ ~disk.vocab.exists
    \/ ~disk.docword.exists
    \/ args.consolidate /\ ~disk.docword_concat.exists

ValidConfig(a) ==
    /\ a.chunk_size > 0 /\ a.K > 0 /\ a.T > 0
    /\ a.alpha > 0 /\ a.gamma > 0 /\ a.eta > 0
    /\ a.tau > 0 /\ a.scale > 0 /\ a.var_converge > 0

IsInference(c) == c.fn = "inference"

InferenceCalls == SelectSeq(calls, IsInference)

\* C4: with force false and an output path that exists, the run aborts at the
\* overwrite guard: it never gets past the two check_remove calls, no file is
\* opened for reading, create_gensim_corpus and gensim are never called, and no
\* output file is deleted or written.
C4_GuardAbortsBeforeLoading ==
    (~args.force /\ preexisting # {})
    => /\ pc \in {"check_vocab", "check_docword", "check_concat",
                  "remove_doctopic", "remove_wordtopic", "aborted"}
       /\ IoOps({"open", "remove", "save"}) = {}
       /\ calls = <<>>
       /\ ~hdp.trained
       /\ \A p \in {"doctopic", "wordtopic"} :
              disk[p] = IF p \in preexisting THEN OldOutput ELSE NoOutput

\* C4 witness: the guard on the second output path ended the run
C4_Witness ==
    /\ pc = "aborted"
    /\ error = "output_exists"
    /\ ~args.force
    /\ preexisting = {"wordtopic"}

\* C5: in every terminal state either both output matrices were written by
\* the run or neither was (stated for a valid configuration).
C5_BothOutputsOrNeither ==
    (ValidConfig(args) /\ Terminated)
    => (disk.doctopic.fresh <=> disk.wordtopic.fresh)

\* C6: no row of the document-topic matrix is stored for a document without
\* pairs or for an inferred vector whose sum is zero (stated for a valid
\* configuration).
C6_EmptyDocumentNotStored ==
    ValidConfig(args)
    => \A i \in 1..Len(document_topics) :
           document_topics[i].set
           => corpus[i] # <<>> /\ document_topics[i].den # 0

\* C7: a configuration with a non-positive chunk_size, K, T, alpha, gamma,
\* eta, tau, scale or var_converge is rejected before any file I/O.
C7_InvalidConfigRejectedBeforeIO ==
    ~ValidConfig(args) => io = <<>> /\ pc \in {"check_vocab", "aborted"}

\* C9: the model is trained on the full corpus when consolidate is false and
\* on the separately loaded consolidated corpus when it is true; inference is
\* called once per document of the full corpus, in index order, and row i of
\* the document-topic matrix is the normalised result for full-corpus
\* document i, so the saved matrix has as many rows as the full corpus.
C9_InferenceOverFullCorpus ==
    /\ hdp.trained
       => hdp.corpus = (IF args.consolidate
                        THEN create_gensim_corpus(disk.docword_concat).corpus
                        ELSE corpus)
    /\ Len(InferenceCalls) <= Len(corpus)
    /\ \A k \in 1..Len(InferenceCalls) :
           /\ InferenceCalls[k].arg = corpus[k]
           /\ k <= Len(document_topics)
           /\ document_topics[k] = Normalize(InferenceCalls[k].result)
    /\ pc \in {"save_doctopic", "save_wordtopic", "done"}
       => /\ Len(InferenceCalls) = Len(corpus)
          /\ Len(document_topics) = Len(corpus)
          /\ corpus = create_gensim_corpus(disk.docword).corpus
    /\ disk.doctopic.fresh
       => /\ Len(disk.doctopic.data) = Len(corpus)
          /\ disk.doctopic.data = document_topics

\* C9 witness: a finished run with a consolidated training corpus of another
\* size than the two-document full corpus
C9_Witness ==
    /\ pc = "done"
    /\ args.consolidate
    /\ Len(corpus) = 2
    /\ corpus[1] # corpus[2]
    /\ Len(training_corpus) # Len(corpus)
    /\ Len(disk.doctopic.data) = 2

\* C10: every operation on an output path or on the output directory comes
\* after the existence checks of all required input files, and a run with a
\* required input missing deletes no output file and creates no directory,
\* whatever force is.
C10_InputChecksPrecedeOutputHandling ==
    /\ \A j \in 1..Len(io) :
           io[j][2] \in OutputPaths
           => \A p \in RequiredInputs :
                  \E k \in 1..(j - 1) : io[k] = <<"exists", p>>
    /\ InputMissing
       => /\ IoOps({"remove", "mkdir", "save"}) = {}
          /\ \A p \in {"doctopic", "wordtopic"} :
                 disk[p] = IF p \in preexisting THEN OldOutput ELSE NoOutput

\* C10 witness: force is set, both outputs exist, the consolidated file is
\* missing, and the run has ended
C10_Witness ==
    /\ pc = "aborted"
    /\ error = "missing_input"
    /\ args.force
    /\ args.consolidate
    /\ disk.vocab.exists /\ disk.docword.exists /\ ~disk.docword_concat.exists
    /\ preexisting = {"doctopic", "wordtopic"}
    /\ disk.doctopic = OldOutput /\ disk.wordtopic = OldOutput

====
